---- MODULE Spec2Model ----
(***************************************************************************)
(* bert4torch preference-alignment trainers.                               *)
(*                                                                         *)
(*   DPOTrainer     (bert4torch/trainer/dpo_trainer.py): construction,     *)
(*                  null_ref_context, _forward.                            *)
(*   PPOTrainerTrl  (bert4torch/trainer/ppo_trainer_trl.py): construction, *)
(*                  train_step, step.                                      *)
(*                                                                         *)
(* The two trainers are independent objects; SpecDPO drives the first,     *)
(* SpecPPO the second.  `ev` / `pev` hold the call the last step made and  *)
(* its outcome, so that "after the call ..." is a state predicate.         *)
(***************************************************************************)
EXTENDS Integers, Sequences, FiniteSets, TLC

VARIABLES
    \* ---- DPOTrainer -------------------------------------------------
    phase,            \* "new" | "ready" | "raised": outcome of __init__
    is_peft_model,    \* self.is_peft_model
    model_adapter_name, \* self.model_adapter_name ("None" when not set)
    ref_adapter_name, \* self.ref_adapter_name   ("None" when not set)
    ref_model,        \* self.ref_model: "None" | "ref"
    prep,             \* what __init__ did to the policy module
    activeAdapter,    \* the policy backbone's active adapter selection
    adaptersEnabled,  \* FALSE inside PEFT's disable_adapter() scope
    refParams,        \* requires_grad of each parameter of the reference module
    refTraining,      \* reference module in training mode (TRUE) or eval (FALSE)
    gradEnabled,      \* torch grad mode
    gradPrev,         \* grad mode saved by the torch.no_grad() of _forward
    scopes,           \* stack of open null_ref_context scopes
    fpc,              \* position inside _forward
    fbatch,           \* the inputs of the running _forward
    ev,               \* the last call and its outcome
    \* ---- PPOTrainerTrl ----------------------------------------------
    pphase,           \* "new" | "ready" | "raised": outcome of import + __init__
    ppo_step,         \* self.ppo_step: "True" | "False", "unset" until train_step assigns it
    with_lm,          \* self.generation.decoder.with_lm
    reward_baseline,  \* self.reward_baseline
    staged,           \* self.question_tensors / response_tensors / rewards
    tpc,              \* position inside train_step
    loc,              \* the locals of the running train_step
    calls,            \* train_step calls started
    cycles,           \* generate -> score cycles completed
    updates,          \* PPOTrainer.step policy-gradient updates run
    pev,              \* the last call and its outcome
    rcall             \* a direct call of the static method calculate_rewards

ppoVars == <<pphase, ppo_step, with_lm, reward_baseline, staged, tpc, loc,
             calls, cycles, updates, pev, rcall>>

dpoVars == <<phase, is_peft_model, model_adapter_name, ref_adapter_name, ref_model,
             prep, activeAdapter, adaptersEnabled, refParams, refTraining,
             gradEnabled, gradPrev, scopes, fpc, fbatch, ev>>

\* ---------------------------------------------------------------- bounds
\* user-level nesting depth of null_ref_context
MaxDepth == 2
\* parameters of the reference module
NumRefParams == 2
\* distinct input batches
NumBatches == 2
\* prompts per PPO batch
MaxBatch == 2
\* train_step calls per run
MaxCalls == 2
\* score tensors handed to one calculate_rewards call
MaxScores == 2
\* elements of one score tensor
MaxNumel == 2

None == "None"
RefParams == 1..NumRefParams
Batches == 1..NumBatches
AdapterNames == {"default", "policy", "ref"}

\* ---------------------------------------------------------------- DPOTrainer.__init__

\* The arguments of DPOTrainer(...) together with the facts of the environment
\* the constructor reads: is_peft_available(), the policy's is_loaded_in_8bit /
\* is_loaded_in_4bit, hasattr(model, "enable_input_require_grads") and, for a
\* policy passed in as a PeftModel, the adapter that is active on it.
CtorArgs ==
    { a \in [ model : {"str", "base", "peft"},
              ref_model : {"None", "str", "inst"},
              model_init_kwargs : BOOLEAN,
              ref_model_init_kwargs : BOOLEAN,
              model_adapter_name : {None, "policy"},
              ref_adapter_name : {None, "ref"},
              peft_config : BOOLEAN,
              disable_dropout : BOOLEAN,
              force_use_ref_model : BOOLEAN,
              args : {None, "given"},
              gradient_checkpointing : BOOLEAN,
              bf16 : BOOLEAN,
              peft_available : BOOLEAN,
              low_bit : {"no", "8bit", "4bit"},
              has_enable_input_require_grads : BOOLEAN,
              initial_active : AdapterNames \cup {None} ] :
        \* a PeftModel instance exists only where peft is importable, and only
        \* a PeftModel comes with an active adapter
        /\ a.model = "peft" => a.peft_available
        \* args defaults to None (line 24); gradient_checkpointing and bf16 are its entries
        /\ a.args = None => (~a.gradient_checkpointing /\ ~a.bf16)
        /\ (a.initial_active # None) <=> (a.model = "peft") }

NoPrep == [ merged |-> FALSE, kbit |-> 0, kbit_gc |-> FALSE, hooks |-> 0, hook_kind |-> None,
            attached |-> FALSE, casted |-> FALSE, dropout_off |-> FALSE, ref_dropout_off |-> FALSE,
            kind |-> None ]

\* lines 91-100 and 112-121: the input-requires-grad hook
AttachHook(p, a) ==
    [p EXCEPT !.hooks = @ + 1,
              !.hook_kind = IF a.has_enable_input_require_grads
                            THEN "enable_input_require_grads" ELSE "forward_hook"]

PeftBranchNoConflictCheck(a, p0) ==
    <<"none", [p0 EXCEPT !.attached = TRUE, !.kind = "peft"]>>

PeftBranchHookWithKbit(a, p0) ==
    LET p1 == IF p0.kind = "peft"
              THEN [p0 EXCEPT !.merged = TRUE, !.kind = "base"]
              ELSE p0
    IN  IF a.ref_model # "None" /\ ~a.force_use_ref_model
        THEN <<"ref_and_peft", p1>>
        ELSE IF a.low_bit # "no" /\ a.args = None
        THEN <<"args_none", p1>>
        ELSE LET p2 == IF a.low_bit # "no"
                       THEN [p1 EXCEPT !.kbit = @ + 1, !.kbit_gc = a.gradient_checkpointing]
                       ELSE p1
                 p2h == IF a.gradient_checkpointing THEN AttachHook(p2, a) ELSE p2
                 p3 == [p2h EXCEPT !.attached = TRUE, !.kind = "peft"]
                 p4 == IF a.bf16 /\ a.low_bit = "4bit"
                       THEN [p3 EXCEPT !.casted = TRUE] ELSE p3
             IN  <<"none", p4>>

\* lines 66-107: the branch taken when peft is available and a peft_config is given.
\* Returns <<error, prep>>.
PeftBranch(a, p0) ==
    LET p1 == IF p0.kind = "peft"
              THEN [p0 EXCEPT !.merged = TRUE, !.kind = "base"]      \* 68-69
              ELSE p0
    IN  IF a.ref_model # "None" /\ ~a.force_use_ref_model            \* 71-76
        THEN <<"ref_and_peft", p1>>
        ELSE IF a.low_bit # "no" /\ a.args = None                    \* 85: None.gradient_checkpointing
        THEN <<"args_none", p1>>
        ELSE LET p2 == IF a.low_bit # "no"                           \* 78-90
                       THEN [p1 EXCEPT !.kbit = @ + 1, !.kbit_gc = a.gradient_checkpointing]
                       ELSE IF a.gradient_checkpointing              \* 91-100
                       THEN AttachHook(p1, a)
                       ELSE p1
                 p3 == [p2 EXCEPT !.attached = TRUE, !.kind = "peft"]  \* 103
                 p4 == IF a.bf16 /\ a.low_bit = "4bit"                 \* 104-107
                       THEN [p3 EXCEPT !.casted = TRUE] ELSE p3
             IN  <<"none", p4>>

CtorPrepareNoPeftCheck(a) ==
    IF a.model_init_kwargs /\ a.model # "str"
    THEN <<"model_kwargs", [NoPrep EXCEPT !.kind = a.model]>>
    ELSE IF a.ref_model_init_kwargs /\ a.ref_model # "str"
    THEN <<"ref_kwargs", [NoPrep EXCEPT !.kind = a.model]>>
    ELSE LET p0 == [NoPrep EXCEPT !.kind = IF a.model = "str" THEN "base" ELSE a.model]
         IN  IF a.peft_available /\ a.peft_config
             THEN PeftBranch(a, p0)
             ELSE IF a.gradient_checkpointing
             THEN <<"none", AttachHook(p0, a)>>
             ELSE <<"none", p0>>

\* lines 35-121: argument checks, model building, adapter / hook preparation.
\* Returns <<error, prep>>; prep.kind is the class of the local `model`.
CtorPrepare(a) ==
    IF a.model_init_kwargs /\ a.model # "str"                        \* 35-38
    THEN <<"model_kwargs", [NoPrep EXCEPT !.kind = a.model]>>
    ELSE IF a.ref_model_init_kwargs /\ a.ref_model # "str"           \* 40-45
    THEN <<"ref_kwargs", [NoPrep EXCEPT !.kind = a.model]>>
    ELSE LET p0 == [NoPrep EXCEPT !.kind = IF a.model = "str" THEN "base" ELSE a.model]  \* 47-52
         IN  IF ~a.peft_available /\ a.peft_config                   \* 62-65
             THEN <<"peft_missing", p0>>
             ELSE IF a.peft_available /\ a.peft_config               \* 66
             THEN PeftBranch(a, p0)
             ELSE IF a.gradient_checkpointing                        \* 112-121
             THEN <<"none", AttachHook(p0, a)>>
             ELSE <<"none", p0>>

\* line 123
IsPeftModel(a, p) == a.peft_available /\ p.kind = "peft"

\* lines 129-136: the reference model kept by the trainer
RefModelOf(a) == IF a.ref_model # "None" THEN "ref" ELSE "None"

\* lines 131-132: for p in self.ref_model.parameters(): p.requires_grad = False
FreezeFirstOnly(params) == [i \in RefParams |-> IF i = 1 THEN FALSE ELSE params[i]]
Freeze(params) == [i \in RefParams |-> FALSE]

\* line 134: self.ref_model.eval()
EvalMode(training) == FALSE

\* the adapter active on the policy once __init__ is through: get_peft_model
\* attaches the new adapter under the name "default"; a PeftModel passed in
\* without peft_config keeps its own selection
ActiveAfterCtor(a, p) ==
    IF p.attached THEN "default"
    ELSE IF p.kind = "peft" THEN a.initial_active
    ELSE None

Construct(a) ==
    /\ LET r == CtorPrepare(a)
           err == r[1]
           p == r[2]
           \* a reference passed as a checkpoint id is built fresh (54-58):
           \* trainable parameters, training mode
           ref0 == IF a.ref_model = "str" THEN [i \in RefParams |-> TRUE] ELSE refParams
           tr0 == IF a.ref_model = "str" THEN TRUE ELSE refTraining
       IN  IF err # "none"
           THEN /\ phase' = "raised"
                /\ prep' = p
                /\ ev' = [type |-> "construct", args |-> a, error |-> err]
                /\ UNCHANGED <<is_peft_model, model_adapter_name, ref_adapter_name, ref_model,
                               activeAdapter, refParams, refTraining>>
           ELSE /\ phase' = "ready"
                /\ is_peft_model' = IsPeftModel(a, p)                 \* 123
                /\ model_adapter_name' = a.model_adapter_name        \* 124
                /\ ref_adapter_name' = a.ref_adapter_name            \* 125
                /\ ref_model' = RefModelOf(a)                        \* 129-136
                /\ refParams' = IF RefModelOf(a) # "None" THEN Freeze(ref0) ELSE ref0
                /\ refTraining' = IF RefModelOf(a) # "None" THEN EvalMode(tr0) ELSE tr0
                /\ prep' = [p EXCEPT !.dropout_off = a.disable_dropout,            \* 138-141
                                     !.ref_dropout_off = a.disable_dropout /\ RefModelOf(a) # "None"]
                /\ activeAdapter' = ActiveAfterCtor(a, p)
                /\ ev' = [type |-> "construct", args |-> a, error |-> "none"]
    /\ UNCHANGED <<adaptersEnabled, gradEnabled, gradPrev, scopes, fpc, fbatch>>
    /\ UNCHANGED ppoVars

\* ---------------------------------------------------------------- DPOTrainer.null_ref_context

\* line 158: self.is_peft_model and not self.ref_adapter_name
UseDisableIgnoresRefName == is_peft_model

UseDisable == is_peft_model /\ ref_adapter_name = None

\* line 163: self.model_adapter_name or "default"
PolicyAdapter == IF model_adapter_name # None THEN model_adapter_name ELSE "default"

\* lines 159-160, run on entry: the adapter selected for the body
EntryActiveUnchanged(active) == active
EntryActive(active) == IF ref_adapter_name # None THEN ref_adapter_name ELSE active

\* line 158, disable_adapter().__enter__ (nullcontext leaves the flag alone)
EntryEnabled(enabled) == IF UseDisable THEN FALSE ELSE enabled

\* lines 162-163, run only when the body returns normally
ExitActiveDefaultOnly(frame, active) == IF ref_adapter_name # None THEN "default" ELSE active
ExitActive(frame, active) == IF ref_adapter_name # None THEN PolicyAdapter ELSE active

\* an exception thrown into the generator at line 161 leaves it at the yield:
\* lines 162-163 are skipped
RaiseActive(frame, active) == active

\* line 158, the __exit__ of the with statement, run on both paths:
\* disable_adapter() re-enables the adapter layers, nullcontext does nothing
WithExitKeepsDisabled(frame, enabled) == enabled
WithExitEnabled(frame, enabled) == IF frame.disabled THEN TRUE ELSE enabled

Frame(owner) == [ owner |-> owner, disabled |-> UseDisable,
                  preActive |-> activeAdapter, preEnabled |-> adaptersEnabled,
                  nestedExit |-> FALSE ]

Top == scopes[Len(scopes)]

\* the stack once the innermost scope is closed; the enclosing body, if any,
\* records that a scope nested in it, at any depth, has run its normal exit
Popped(how) ==
    LET rest == SubSeq(scopes, 1, Len(scopes) - 1)
    IN  IF rest = <<>> \/ (how # "normal" /\ ~Top.nestedExit) THEN rest
        ELSE [rest EXCEPT ![Len(rest)].nestedExit = TRUE]

UserDepth == Cardinality({i \in 1..Len(scopes) : scopes[i].owner = "user"})

ScopeEnter(owner) ==
    /\ adaptersEnabled' = EntryEnabled(adaptersEnabled)
    /\ activeAdapter' = EntryActive(activeAdapter)
    /\ scopes' = Append(scopes, Frame(owner))

ScopeExit(how) ==
    /\ activeAdapter' = IF how = "normal" THEN ExitActive(Top, activeAdapter)
                                          ELSE RaiseActive(Top, activeAdapter)
    /\ adaptersEnabled' = WithExitEnabled(Top, adaptersEnabled)
    /\ scopes' = Popped(how)

ExitEvent(how) ==
    [ type |-> "exit", how |-> how, owner |-> Top.owner, disabled |-> Top.disabled,
      preActive |-> Top.preActive, preEnabled |-> Top.preEnabled, depth |-> Len(scopes) ]

\* ---- the scope used directly by a caller: `with trainer.null_ref_context(): body`
EnterScope ==
    /\ phase = "ready" /\ fpc = "none"
    /\ UserDepth < MaxDepth
    /\ ScopeEnter("user")
    /\ ev' = [type |-> "enter", owner |-> "user"]
    /\ UNCHANGED <<phase, is_peft_model, model_adapter_name, ref_adapter_name, ref_model,
                   prep, refParams, refTraining, gradEnabled, gradPrev, fpc, fbatch>>
    /\ UNCHANGED ppoVars

ExitScope ==
    /\ phase = "ready" /\ fpc = "none"
    /\ scopes # <<>>
    /\ ScopeExit("normal")
    /\ ev' = ExitEvent("normal")
    /\ UNCHANGED <<phase, is_peft_model, model_adapter_name, ref_adapter_name, ref_model,
                   prep, refParams, refTraining, gradEnabled, gradPrev, fpc, fbatch>>
    /\ UNCHANGED ppoVars

\* the body raises; the exception leaves the scope
RaiseInScope ==
    /\ phase = "ready" /\ fpc = "none"
    /\ scopes # <<>>
    /\ ScopeExit("raise")
    /\ ev' = ExitEvent("raise")
    /\ UNCHANGED <<phase, is_peft_model, model_adapter_name, ref_adapter_name, ref_model,
                   prep, refParams, refTraining, gradEnabled, gradPrev, fpc, fbatch>>
    /\ UNCHANGED ppoVars

\* ---------------------------------------------------------------- DPOTrainer._forward

\* line 146, torch.no_grad().__enter__ : grad mode inside the region
NoGradKeepsMode(g) == g
NoGradEnter(g) == FALSE

RefSideModelAlwaysPolicy == "policy"

\* the module a forward call runs: line 145 / 149 the policy, line 151 the reference
RefSideModel == IF ref_model = None THEN "policy" ELSE "ref"

ForwardEvent(side, m, b) ==
    [ type |-> "forward", side |-> side, model |-> m, batch |-> b,
      grad |-> gradEnabled, active |-> activeAdapter, enabled |-> adaptersEnabled,
      inScope |-> (scopes # <<>> /\ Top.owner = "forward"),
      after |-> fpc ]

fixedDPO == <<phase, is_peft_model, model_adapter_name, ref_adapter_name, ref_model,
              prep, refParams, refTraining>>

\* line 145: policy forward pass, gradient tracking as the caller has it
FwdPolicy(b) ==
    /\ phase = "ready" /\ fpc = "none"
    /\ fbatch' = b
    /\ fpc' = "policy"
    /\ ev' = ForwardEvent("policy", "policy", b)
    /\ UNCHANGED <<fixedDPO, activeAdapter, adaptersEnabled, gradEnabled, gradPrev, scopes>>
    /\ UNCHANGED ppoVars

\* line 145 raises: nothing of _forward is open yet
FwdPolicyRaise(b) ==
    /\ phase = "ready" /\ fpc = "none"
    /\ ev' = [type |-> "fwd_raise", at |-> "policy", batch |-> b]
    /\ UNCHANGED <<fixedDPO, activeAdapter, adaptersEnabled, gradEnabled, gradPrev, scopes,
                   fpc, fbatch>>
    /\ UNCHANGED ppoVars

\* line 146
FwdEnterNoGrad ==
    /\ fpc = "policy"
    /\ gradPrev' = gradEnabled
    /\ gradEnabled' = NoGradEnter(gradEnabled)
    /\ fpc' = "nograd"
    /\ ev' = [type |-> "nograd_enter"]
    /\ UNCHANGED <<fixedDPO, activeAdapter, adaptersEnabled, scopes, fbatch>>
    /\ UNCHANGED ppoVars

\* lines 147-148
FwdEnterCtx ==
    /\ fpc = "nograd"
    /\ ref_model = None
    /\ ScopeEnter("forward")
    /\ fpc' = "ctx"
    /\ ev' = [type |-> "enter", owner |-> "forward"]
    /\ UNCHANGED <<fixedDPO, gradEnabled, gradPrev, fbatch>>
    /\ UNCHANGED ppoVars

RefForwardReady ==
    \/ fpc = "ctx"
    \/ fpc = "nograd" /\ ref_model # None

\* line 149 (policy module, inside null_ref_context) or line 151 (reference module)
FwdRef ==
    /\ RefForwardReady
    /\ fpc' = "refdone"
    /\ ev' = ForwardEvent("ref", RefSideModel, fbatch)
    /\ UNCHANGED <<fixedDPO, activeAdapter, adaptersEnabled, gradEnabled, gradPrev, scopes, fbatch>>
    /\ UNCHANGED ppoVars

\* line 149 / 151 raises: the exception unwinds null_ref_context (when open)
\* and torch.no_grad(), and leaves _forward
FwdRefRaise ==
    /\ RefForwardReady
    /\ IF fpc = "ctx"
       THEN /\ ScopeExit("raise")
            /\ ev' = ExitEvent("raise")
       ELSE /\ ev' = [type |-> "fwd_raise", at |-> "ref", batch |-> fbatch]
            /\ UNCHANGED <<activeAdapter, adaptersEnabled, scopes>>
    /\ gradEnabled' = gradPrev
    /\ fpc' = "none"
    /\ UNCHANGED <<fixedDPO, gradPrev, fbatch>>
    /\ UNCHANGED ppoVars

\* line 148, leaving the with block normally
FwdExitCtx ==
    /\ fpc = "refdone"
    /\ ref_model = None
    /\ ScopeExit("normal")
    /\ fpc' = "ctxdone"
    /\ ev' = ExitEvent("normal")
    /\ UNCHANGED <<fixedDPO, gradEnabled, gradPrev, fbatch>>
    /\ UNCHANGED ppoVars

\* line 146 leaving torch.no_grad() and line 153
FwdReturn ==
    /\ \/ fpc = "ctxdone"
       \/ fpc = "refdone" /\ ref_model # None
    /\ gradEnabled' = gradPrev
    /\ fpc' = "none"
    /\ ev' = [type |-> "return", batch |-> fbatch]
    /\ UNCHANGED <<fixedDPO, activeAdapter, adaptersEnabled, gradPrev, scopes, fbatch>>
    /\ UNCHANGED ppoVars

\* ---------------------------------------------------------------- SpecDPO

\* no direct call of calculate_rewards is in progress
NoRewardCall == [pc |-> "none", given |-> <<>>, scores |-> <<>>, baseline |-> 0, out |-> <<>>]

\* before the first train_step the three staging attributes do not exist
Unstaged == [question_tensors |-> <<>>, response_tensors |-> <<>>, rewards |-> <<>>, call |-> 0]

\* the trainer as a train_step call finds it
NoSnapshot == [ppo_step |-> "unset", staged |-> Unstaged, updates |-> 0, cycles |-> 0,
               with_lm |-> FALSE]

\* the locals of train_step (lines 33-51); `entry` is the trainer as the call
\* found it, `path` the stages the call has been through and `used` the batch
\* it handed to PPOTrainer.step
NoLocals == [q |-> <<>>, query |-> <<>>, resp |-> <<>>, texts |-> <<>>,
             scores |-> <<>>, rewards |-> <<>>,
             entry |-> NoSnapshot, path |-> <<>>, used |-> Unstaged]

\* the PPO trainer is a separate object: SpecDPO leaves it unbuilt
IdlePPO ==
    /\ pphase = "new"
    /\ ppo_step = "unset"
    /\ reward_baseline = 0
    /\ staged = Unstaged
    /\ tpc = "idle"
    /\ loc = NoLocals
    /\ calls = 0
    /\ cycles = 0
    /\ updates = 0
    /\ pev = [type |-> "init"]
    /\ rcall = NoRewardCall

\* the DPO trainer is a separate object: SpecPPO leaves it unbuilt
IdleDPO ==
    /\ phase = "new"
    /\ is_peft_model = FALSE
    /\ model_adapter_name = None
    /\ ref_adapter_name = None
    /\ ref_model = None
    /\ prep = NoPrep
    /\ activeAdapter = None
    /\ adaptersEnabled = TRUE
    /\ refParams = [i \in RefParams |-> TRUE]
    /\ refTraining = TRUE
    /\ gradEnabled = TRUE
    /\ gradPrev = TRUE
    /\ scopes = <<>>
    /\ fpc = "none"
    /\ fbatch = 1
    /\ ev = [type |-> "init"]

InitDPO ==
    /\ IdleDPO
    /\ IdlePPO
    /\ with_lm = FALSE

NextDPO ==
    \/ phase = "new" /\ \E a \in CtorArgs : Construct(a)
    \/ EnterScope
    \/ ExitScope
    \/ RaiseInScope
    \/ \E b \in Batches : FwdPolicy(b)
    \/ \E b \in Batches : FwdPolicyRaise(b)
    \/ FwdEnterNoGrad
    \/ FwdEnterCtx
    \/ FwdRef
    \/ FwdRefRaise
    \/ FwdExitCtx
    \/ FwdReturn

vars == <<dpoVars, ppoVars>>

SpecDPO == InitDPO /\ [][NextDPO]_vars

\* ---------------------------------------------------------------- PPOTrainerTrl

RECURSIVE SumSeq(_)
SumSeq(seq) == IF seq = <<>> THEN 0 ELSE Head(seq) + SumSeq(Tail(seq))

Min(x, y) == IF x <= y THEN x ELSE y

\* token 0 is a special token; a generated sequence is sampled from these
SpecialToken == 0
Responses == {<<1>>, <<SpecialToken, 2>>}

\* the prompts of a batch: prompt i has token tensor i and raw text i
PromptSeq(n) == [i \in 1..n |-> i]

\* train_X as the training loop hands it over: a tuple/list or a mapping of
\* question tensors and raw query texts (whose counts need not agree), a
\* mapping without the two keys, or some other object
TrainInputs ==
    [ form : {"tuple", "dict"}, q : {PromptSeq(n) : n \in 1..MaxBatch},
      query : {PromptSeq(n) : n \in 1..MaxBatch} ]
    \cup [ form : {"dict_without_keys", "other"}, q : {<<>>}, query : {<<>>} ]

\* lines 8-16: with trl missing PPOTrainer is `object`, and the class statement
\* `class PPOTrainerTrl(object, Trainer)` has no consistent MRO
ClassStatement(trl) == IF trl THEN "ok" ELSE "TypeError"

\* lines 17-28. k.reward_baseline travels in **kwargs and reaches
\* PPOTrainer.__init__ (line 21) before line 27 pops it; trl's initializer
\* takes no such keyword
InitPPOError(k) ==
    IF ClassStatement(k.trl) # "ok" THEN "TypeError"                \* 16
    ELSE IF ~k.trl THEN "ValueError"                                \* 18-19
    ELSE IF k.reward_baseline # <<>> THEN "TypeError"               \* 21
    ELSE IF ~k.generation THEN "AttributeError"                     \* 23
    ELSE "none"

\* reward_baseline: <<>> when the keyword is not passed, <<b>> when it is
PPOArgs == [trl : BOOLEAN, generation : BOOLEAN, reward_baseline : {<<>>, <<1>>}]

\* line 27: kwargs.pop('reward_baseline', 0)
PopRewardBaseline(k) == IF k.reward_baseline = <<>> THEN 0 ELSE k.reward_baseline[1]

ConstructPPO(k) ==
    /\ IF InitPPOError(k) # "none"
       THEN /\ pphase' = "raised"
            /\ UNCHANGED reward_baseline
       ELSE /\ pphase' = "ready"
            /\ reward_baseline' = PopRewardBaseline(k)
    /\ pev' = [type |-> "construct", args |-> k, error |-> InitPPOError(k)]
    /\ UNCHANGED <<ppo_step, with_lm, staged, tpc, loc, calls, cycles, updates>>
    /\ UNCHANGED <<dpoVars, rcall>>

ParseErrorAcceptsAnything(x) == "none"

\* lines 32-37
ParseError(x) ==
    IF x.form = "tuple" THEN "none"
    ELSE IF x.form = "dict" THEN "none"
    ELSE IF x.form = "dict_without_keys" THEN "KeyError"
    ELSE "ValueError"

Snapshot == [ppo_step |-> ppo_step, staged |-> staged, updates |-> updates, cycles |-> cycles,
             with_lm |-> with_lm]

TrainStepBegin(x) ==
    /\ pphase = "ready" /\ tpc = "idle"
    /\ calls < MaxCalls
    /\ calls' = calls + 1
    /\ IF ParseError(x) # "none"
       THEN /\ pev' = [type |-> "train_step_raise", at |-> "parse", error |-> ParseError(x),
                       form |-> x.form, loc |-> [NoLocals EXCEPT !.entry = Snapshot]]
            /\ UNCHANGED <<tpc, loc>>
       ELSE /\ tpc' = "parsed"
            /\ loc' = [NoLocals EXCEPT !.q = x.q, !.query = x.query, !.entry = Snapshot]
            /\ pev' = [type |-> "parsed", form |-> x.form]
    /\ UNCHANGED <<pphase, ppo_step, with_lm, reward_baseline, staged, cycles, updates>>
    /\ UNCHANGED <<dpoVars, rcall>>

\* line 41
GenStart ==
    /\ tpc = "parsed"
    /\ with_lm' = TRUE
    /\ tpc' = "generating"
    /\ pev' = [type |-> "gen_start", prior |-> with_lm]
    /\ UNCHANGED <<pphase, ppo_step, reward_baseline, staged, loc, calls, cycles, updates>>
    /\ UNCHANGED <<dpoVars, rcall>>

\* line 43
AfterGenerate(flag) == FALSE

\* lines 42-43: one sampled sequence per question tensor
GenDone ==
    /\ tpc = "generating"
    /\ \E r \in [1..Len(loc.q) -> Responses] :
          loc' = [loc EXCEPT !.resp = r, !.path = Append(@, "generate")]
    /\ with_lm' = AfterGenerate(with_lm)
    /\ tpc' = "generated"
    /\ pev' = [type |-> "generated", during |-> with_lm]
    /\ UNCHANGED <<pphase, ppo_step, reward_baseline, staged, calls, cycles, updates>>
    /\ UNCHANGED <<dpoVars, rcall>>

\* line 42 raises: line 43 is not reached
GenRaise ==
    /\ tpc = "generating"
    /\ tpc' = "idle"
    /\ loc' = NoLocals
    /\ pev' = [type |-> "train_step_raise", at |-> "generate", error |-> "generation",
               loc |-> loc]
    /\ UNCHANGED <<pphase, ppo_step, with_lm, reward_baseline, staged, calls, cycles, updates>>
    /\ UNCHANGED <<dpoVars, rcall>>

\* line 45: tokenizer.decode(response_tensor, skip_special_tokens=True)
decode(tokens) == SelectSeq(tokens, LAMBDA t : t # SpecialToken)

\* lines 44-46
Decode ==
    /\ tpc = "generated"
    /\ loc' = [loc EXCEPT !.texts = [i \in 1..Len(loc.resp) |-> decode(loc.resp[i])],
                          !.path = Append(@, "decode")]
    /\ tpc' = "decoded"
    /\ pev' = [type |-> "decoded"]
    /\ UNCHANGED <<pphase, ppo_step, with_lm, reward_baseline, staged, calls, cycles, updates>>
    /\ UNCHANGED <<dpoVars, rcall>>

DecodeRaise ==
    /\ tpc = "generated"
    /\ tpc' = "idle"
    /\ loc' = NoLocals
    /\ pev' = [type |-> "train_step_raise", at |-> "decode", error |-> "decode",
               loc |-> loc]
    /\ UNCHANGED <<pphase, ppo_step, with_lm, reward_baseline, staged, calls, cycles, updates>>
    /\ UNCHANGED <<dpoVars, rcall>>

\* lines 87-93: the reward model's logits[0] for a (question, answer) pair; an
\* opaque, deterministic module: one element for prompt 1, two for the others
get_reward_model_output(question, answer) ==
    IF question = 1 THEN <<question + SumSeq(answer)>>
    ELSE <<question, SumSeq(answer)>>

\* lines 49-50: zip(query, responses) stops at the shorter of the two
Score ==
    /\ tpc = "decoded"
    /\ loc' = [loc EXCEPT !.scores =
                  [i \in 1..Min(Len(loc.query), Len(loc.texts)) |->
                      get_reward_model_output(loc.query[i], loc.texts[i])],
                          !.path = Append(@, "score")]
    /\ tpc' = "scored"
    /\ cycles' = cycles + 1
    /\ pev' = [type |-> "scored"]
    /\ UNCHANGED <<pphase, ppo_step, with_lm, reward_baseline, staged, calls, updates>>
    /\ UNCHANGED <<dpoVars, rcall>>

ScoreRaise ==
    /\ tpc = "decoded"
    /\ tpc' = "idle"
    /\ loc' = NoLocals
    /\ pev' = [type |-> "train_step_raise", at |-> "score", error |-> "reward_model",
               loc |-> loc]
    /\ UNCHANGED <<pphase, ppo_step, with_lm, reward_baseline, staged, calls, cycles, updates>>
    /\ UNCHANGED <<dpoVars, rcall>>

RewardOfMeanWithoutBaseline(score, baseline) ==
    IF Len(score) = 1
    THEN [num |-> score[1] - baseline, den |-> 1]
    ELSE [num |-> SumSeq(score), den |-> Len(score)]

\* lines 76-83: a reward is the rational num/den = (sum - baseline*numel)/numel;
\* a one-element score gives value - baseline over 1
RewardOf(score, baseline) ==
    IF Len(score) = 1
    THEN [num |-> score[1] - baseline, den |-> 1]                                 \* 77-79
    ELSE [num |-> SumSeq(score) - baseline * Len(score), den |-> Len(score)]       \* 82-83

\* lines 67-84
calculate_rewards(reward_score_outputs, baseline) ==
    [i \in 1..Len(reward_score_outputs) |-> RewardOf(reward_score_outputs[i], baseline)]

\* line 51
Shape ==
    /\ tpc = "scored"
    /\ loc' = [loc EXCEPT !.rewards = calculate_rewards(loc.scores, reward_baseline),
                          !.path = Append(@, "shape")]
    /\ tpc' = "shaped"
    /\ pev' = [type |-> "shaped"]
    /\ UNCHANGED <<pphase, ppo_step, with_lm, reward_baseline, staged, calls, cycles, updates>>
    /\ UNCHANGED <<dpoVars, rcall>>

StagedBatchKeepsOld(l, n) ==
    IF staged = Unstaged
    THEN [question_tensors |-> l.q, response_tensors |-> l.resp, rewards |-> l.rewards, call |-> n]
    ELSE staged

\* lines 54-56: what train_step stores on self for the update
StagedBatch(l, n) ==
    [question_tensors |-> l.q, response_tensors |-> l.resp, rewards |-> l.rewards, call |-> n]

\* lines 54-57
Stage ==
    /\ tpc = "shaped"
    /\ staged' = StagedBatch(loc, calls)
    /\ ppo_step' = "True"
    /\ tpc' = "staged"
    /\ loc' = [loc EXCEPT !.path = Append(@, "stage")]
    /\ pev' = [type |-> "staged"]
    /\ UNCHANGED <<pphase, with_lm, reward_baseline, calls, cycles, updates>>
    /\ UNCHANGED <<dpoVars, rcall>>

\* lines 61-64: what a call of step() does. "update": PPOTrainer.step runs on
\* the staged batch; "None": falls off the end; "AttributeError": self.ppo_step
\* was never assigned
StepAlwaysUpdates(flag) == IF flag = "unset" THEN "AttributeError" ELSE "update"
StepOutcome(flag) ==
    IF flag = "unset" THEN "AttributeError"
    ELSE IF flag = "True" THEN "update"
    ELSE "None"

\* line 58 -> 62-64, the update succeeds
StepInTrainStep ==
    /\ tpc = "staged"
    /\ StepOutcome(ppo_step) = "update"
    /\ ppo_step' = "False"                                            \* 63
    /\ updates' = updates + 1                                       \* 64
    /\ tpc' = "stepped"
    /\ loc' = [loc EXCEPT !.path = Append(@, "update"), !.used = staged]
    /\ pev' = [type |-> "update", from |-> "train_step", batch |-> staged, call |-> calls]
    /\ UNCHANGED <<pphase, with_lm, reward_baseline, staged, calls, cycles>>
    /\ UNCHANGED <<dpoVars, rcall>>

\* line 64 raises inside PPOTrainer.step: the flag is already cleared
StepInTrainStepRaise ==
    /\ tpc = "staged"
    /\ StepOutcome(ppo_step) = "update"
    /\ ppo_step' = "False"
    /\ tpc' = "idle"
    /\ loc' = NoLocals
    /\ pev' = [type |-> "train_step_raise", at |-> "update", error |-> "ppo_step",
               loc |-> loc]
    /\ UNCHANGED <<pphase, with_lm, reward_baseline, staged, calls, cycles, updates>>
    /\ UNCHANGED <<dpoVars, rcall>>

\* line 59
TrainStepReturn ==
    /\ tpc = "stepped"
    /\ tpc' = "idle"
    /\ loc' = NoLocals
    /\ pev' = [type |-> "train_step_return", batch |-> staged, call |-> calls, loc |-> loc]
    /\ UNCHANGED <<pphase, ppo_step, with_lm, reward_baseline, staged, calls, cycles, updates>>
    /\ UNCHANGED <<dpoVars, rcall>>

\* a call of step() from outside train_step (the training loop, a callback)
BareStep ==
    /\ pphase = "ready" /\ tpc = "idle"
    /\ LET out == StepOutcome(ppo_step)
       IN  /\ ppo_step' = IF out = "update" THEN "False" ELSE ppo_step
           /\ updates' = IF out = "update" THEN updates + 1 ELSE updates
           /\ pev' = [type |-> "step", result |-> out, updates_before |-> updates,
                      cycles |-> cycles]
    /\ UNCHANGED <<pphase, with_lm, reward_baseline, staged, tpc, loc, calls, cycles>>
    /\ UNCHANGED <<dpoVars, rcall>>

InitPPO ==
    /\ IdleDPO
    /\ IdlePPO
    \* the decoding mode the generation component was left in by its owner
    /\ with_lm \in BOOLEAN

NextPPO ==
    \/ pphase = "new" /\ \E k \in PPOArgs : ConstructPPO(k)
    \/ \E x \in TrainInputs : TrainStepBegin(x)
    \/ GenStart
    \/ GenDone
    \/ GenRaise
    \/ Decode
    \/ DecodeRaise
    \/ Score
    \/ ScoreRaise
    \/ Shape
    \/ Stage
    \/ StepInTrainStep
    \/ StepInTrainStepRaise
    \/ TrainStepReturn
    \/ BareStep

SpecPPO == InitPPO /\ [][NextPPO]_vars

\* ---------------------------------------------------------------- calculate_rewards, called directly

\* element values of a reward model's score tensor, and baselines
ScoreValues == {-1, 0, 3}
Baselines == {0, 1}

\* score tensors with 1..MaxNumel elements, and sequences of up to MaxScores of them
ScoreTensors == UNION {[1..n -> ScoreValues] : n \in 1..MaxNumel}
ScoreSeqs == UNION {[1..n -> ScoreTensors] : n \in 0..MaxScores}

\* lines 67-84 as a call: `given` is the argument as passed, `scores` the same
\* list object once the call is over (the loop only reads it), `out` the result
CallCalculateRewards ==
    /\ rcall.pc = "call"
    /\ rcall' = [rcall EXCEPT !.pc = "done",
                              !.out = calculate_rewards(rcall.scores, rcall.baseline)]
    /\ UNCHANGED <<pphase, ppo_step, with_lm, reward_baseline, staged, tpc, loc,
                   calls, cycles, updates, pev>>
    /\ UNCHANGED dpoVars

InitRewards ==
    /\ IdleDPO
    /\ pphase = "new"
    /\ ppo_step = "unset"
    /\ with_lm = FALSE
    /\ reward_baseline = 0
    /\ staged = Unstaged
    /\ tpc = "idle"
    /\ loc = NoLocals
    /\ calls = 0
    /\ cycles = 0
    /\ updates = 0
    /\ pev = [type |-> "init"]
    /\ \E s \in ScoreSeqs, b \in Baselines :
          rcall = [pc |-> "call", given |-> s, scores |-> s, baseline |-> b, out |-> <<>>]

NextRewards == CallCalculateRewards

SpecRewards == InitRewards /\ [][NextRewards]_vars

\* ================================================================ claims on DPOTrainer

\* the reference modes, as _forward and null_ref_context resolve them from
\* the trainer's fields
ModeFrozen == ref_model # None
ModeDisable == ref_model = None /\ is_peft_model /\ ref_adapter_name = None
ModeNamed == ref_model = None /\ is_peft_model /\ ref_adapter_name # None

ScopeExited == ev.type = "exit"

\* C1 (as stated): in adapter-disable mode, after any exit of null_ref_context
\* (normal or by exception) the active adapter and the adapters-enabled state
\* equal those immediately before entry.
C1_Original ==
    (ScopeExited /\ ModeDisable) =>
        /\ activeAdapter = ev.preActive
        /\ adaptersEnabled = ev.preEnabled

\* C1 (amended): in adapter-disable mode, after any exit of null_ref_context
\* (normal or by exception) the active adapter equals the one before entry and
\* the adapters are enabled; that is the pre-entry state exactly when the
\* entry was made with adapters enabled (not nested in another such scope).
C1_DisableModeRestores ==
    (ScopeExited /\ ModeDisable) =>
        /\ activeAdapter = ev.preActive
        /\ adaptersEnabled = TRUE
        /\ ev.preEnabled => adaptersEnabled = ev.preEnabled

C1_Witness ==
    /\ ScopeExited /\ ModeDisable
    /\ ev.how = "raise"
    /\ ev.preEnabled
    /\ activeAdapter = "policy"

\* C2: in named-reference-adapter mode, when the body of null_ref_context
\* raises, the active adapter is the policy's own adapter (model_adapter_name
\* or "default") once the exception has left the scope.
C2_RaiseRestoresPolicyAdapter ==
    (ScopeExited /\ ev.how = "raise" /\ ModeNamed) => activeAdapter = PolicyAdapter

\* C3: a construction with no reference model and a policy that is not
\* adapter-augmented (no peft_config, not a PeftModel) raises, and no forward
\* call of _forward runs without a resolvable reference mode.
C3_NoReferenceRaises ==
    /\ (ev.type = "construct" /\ ev.args.ref_model = "None"
            /\ ~ev.args.peft_config /\ ev.args.model # "peft")
        => (ev.error # "none" /\ phase = "raised")
    /\ ev.type = "forward" => (ModeFrozen \/ ModeDisable \/ ModeNamed)

ConflictArgs(a) == a.ref_model # "None" /\ a.peft_config

InNamedScope == is_peft_model /\ ref_adapter_name = "ref" /\ scopes # <<>>

C8_ReferenceUnderNoGrad ==
    ev.type = "forward" =>
        /\ ev.side = "ref" => ~ev.grad /\ fpc = "refdone"
        /\ ev.side = "policy" => ev.grad /\ fpc = "policy"

C8_Witness ==
    /\ ev.type = "forward" /\ ev.side = "ref"
    /\ ev.model = "policy" /\ ev.inScope
    /\ ~ev.grad /\ ~ev.enabled

\* C9: once a trainer is constructed with a reference model, every parameter
\* of the reference model has requires_grad False and the reference model is
\* in evaluation mode, whatever _forward and null_ref_context calls follow.
C9_ReferenceFrozen ==
    (phase = "ready" /\ ref_model # None) =>
        /\ \A i \in RefParams : ~refParams[i]
        /\ ~refTraining

C9_Witness ==
    /\ phase = "ready" /\ ref_model # None
    /\ ev.type = "return"
    /\ \A i \in RefParams : ~refParams[i]

\* C10: after a successful construction exactly one reference mode is active.
C10_ExactlyOneMode ==
    phase = "ready" =>
        Cardinality({m \in {"frozen", "disable", "named"} :
                        \/ m = "frozen" /\ ModeFrozen
                        \/ m = "disable" /\ ModeDisable
                        \/ m = "named" /\ ModeNamed}) = 1

\* C17: a construction with a peft_config while PEFT is not importable
\* raises a configuration error (ValueError) in __init__ and has attached no
\* adapter, registered no hook, prepared or merged nothing and frozen no
\* reference parameter.
C17_PeftMissingRaises ==
    (ev.type = "construct" /\ ev.args.peft_config /\ ~ev.args.peft_available) =>
        /\ phase = "raised"
        /\ ev.error \in {"model_kwargs", "ref_kwargs", "peft_missing"}
        /\ ~prep.attached /\ prep.hooks = 0 /\ prep.kbit = 0 /\ ~prep.merged
        /\ \A i \in RefParams : refParams[i]
        /\ refTraining
        /\ ref_model = None /\ ~is_peft_model

C17_Witness ==
    /\ ev.type = "construct" /\ ev.args.peft_config /\ ~ev.args.peft_available
    /\ ev.args.gradient_checkpointing /\ ev.args.ref_model = "inst"
    /\ ev.error = "peft_missing"

\* C18: a construction refused for the ref_model + peft_config conflict has
\* not touched the policy: no merge-and-unload, no low-bit preparation, no
\* hook and no adapter attached.
C18_RefusalBeforeMutation ==
    (ev.type = "construct" /\ ev.error = "ref_and_peft") =>
        (~prep.merged /\ prep.kbit = 0 /\ prep.hooks = 0 /\ ~prep.attached)

\* C19: a successful construction with gradient checkpointing requested has
\* applied exactly one of the low-bit preparation with
\* use_gradient_checkpointing on (low-bit policy with a peft_config) and the
\* input-requires-grad hook, once; without gradient checkpointing no hook is
\* attached and no preparation enables checkpointing.
C19_OneCheckpointingPreparation ==
    /\ (ev.type = "construct" /\ ev.error = "none") =>
          IF ev.args.gradient_checkpointing
          THEN \/ /\ prep.kbit = 1 /\ prep.kbit_gc /\ prep.hooks = 0
                  /\ ev.args.peft_config /\ ev.args.low_bit # "no"
               \/ /\ prep.kbit = 0 /\ prep.hooks = 1
                  /\ ~(ev.args.peft_config /\ ev.args.low_bit # "no")
          ELSE prep.hooks = 0 /\ ~prep.kbit_gc
    /\ prep.hooks <= 1 /\ prep.kbit <= 1 /\ ~(prep.hooks = 1 /\ prep.kbit_gc)

C19_Witness ==
    /\ ev.type = "construct" /\ ev.error = "none"
    /\ ev.args.gradient_checkpointing
    /\ ev.args.peft_config /\ ev.args.low_bit = "8bit"
    /\ prep.kbit = 1 /\ prep.kbit_gc /\ prep.hooks = 0

\* null_ref_context is open on behalf of the running _forward
ForwardScopeOpen == \E i \in 1..Len(scopes) : scopes[i].owner = "forward"

\* C20: in _forward the policy forward pass comes first and the reference
\* forward pass second, on the same inputs; with a separate ref_model the
\* reference pass runs that model, null_ref_context is never entered and no
\* step of _forward touches the adapter selection; without one the reference
\* pass runs the policy model, and null_ref_context is entered after the
\* policy pass, is open during the whole reference pass and is left after it.
C20_ForwardOrder ==
    /\ [](/\ ev.type = "forward" =>
              /\ ev.batch = fbatch
              /\ ev.side = "policy" => (ev.after = "none" /\ ev.model = "policy")
              /\ ev.side = "ref" =>
                    IF ref_model # None
                    THEN ev.model = "ref" /\ ev.after = "nograd" /\ ~ev.inScope
                    ELSE ev.model = "policy" /\ ev.after = "ctx" /\ ev.inScope
          /\ (ev.type = "enter" /\ ev.owner = "forward") => (ref_model = None /\ fpc = "ctx")
          /\ ForwardScopeOpen <=> (fpc \in {"ctx", "refdone"} /\ ref_model = None)
          /\ ForwardScopeOpen => Top.owner = "forward")
    /\ [][((fpc # "none" \/ fpc' # "none") /\ ref_model # None)
              => UNCHANGED <<activeAdapter, adaptersEnabled, scopes>>]_vars

C20_Witness ==
    /\ ev.type = "forward" /\ ev.side = "ref"
    /\ ref_model # None /\ ev.model = "ref"
    /\ ev.batch = NumBatches
    /\ is_peft_model /\ UserDepth = 1

\* C21: with a separate ref_model, null_ref_context is a no-op: while a scope
\* is open the adapters are enabled and the active adapter is the one selected
\* before the outermost entry, and the adapters are never found disabled.
C21_FrozenScopeNoOp ==
    (phase = "ready" /\ ModeFrozen) =>
        /\ adaptersEnabled
        /\ scopes # <<>> => activeAdapter = scopes[1].preActive
        /\ ScopeExited => activeAdapter = ev.preActive

\* C25: null_ref_context never both disables the adapters and selects the
\* named reference adapter: with ref_adapter_name set the adapters are enabled
\* throughout, and they are disabled only inside a scope of an
\* adapter-augmented policy without ref_adapter_name.
C25_DisableXorNamed ==
    /\ (phase = "ready" /\ ref_adapter_name # None) => adaptersEnabled
    /\ ~adaptersEnabled => (is_peft_model /\ ref_adapter_name = None /\ scopes # <<>>)
    /\ \A i \in 1..Len(scopes) :
          scopes[i].disabled <=> (is_peft_model /\ ref_adapter_name = None)
    /\ (ScopeExited /\ ev.disabled) => (is_peft_model /\ ref_adapter_name = None)

C25_Witness ==
    /\ is_peft_model /\ ref_adapter_name = "ref"
    /\ Len(scopes) = 2 /\ ~Top.disabled
    /\ ev.type = "enter"
    /\ adaptersEnabled /\ activeAdapter = "ref"

\* ================================================================ claims on PPOTrainerTrl

\* C7: the policy-gradient updates never outnumber the completed
\* generate -> score cycles, and a step() call with no fresh cycle since the
\* last update performs no update and returns None.
C7_StepGated ==
    /\ updates <= cycles
    /\ pev.type = "step" =>
          /\ updates = pev.updates_before
          /\ pev.result = "None"

\* C11: calculate_rewards returns one reward per score tensor, in order: the
\* single value minus the baseline for a one-element tensor, the mean of the
\* elements minus the baseline otherwise; the input sequence is left as passed.
\* A reward num/den equals (sum/numel - b) iff num * numel = (sum - b * numel) * den.
C11_RewardShaping ==
    rcall.pc = "done" =>
        /\ Len(rcall.out) = Len(rcall.given)
        /\ rcall.scores = rcall.given
        /\ \A i \in 1..Len(rcall.given) :
              LET score == rcall.given[i]
                  r == rcall.out[i]
              IN  /\ r.den > 0
                  /\ IF Len(score) = 1
                     THEN r.num = (score[1] - rcall.baseline) * r.den
                     ELSE r.num * Len(score)
                            = (SumSeq(score) - rcall.baseline * Len(score)) * r.den

C11_Witness ==
    /\ rcall.pc = "done"
    /\ rcall.baseline = 1
    /\ rcall.given = << <<3>>, <<0, 3>> >>
    /\ rcall.out = << [num |-> 2, den |-> 1], [num |-> 1, den |-> 2] >>

\* a train_step call has just handed control back to its caller
LeftTrainStep == pev.type \in {"train_step_return", "train_step_raise"}

\* C12: on every exit path of train_step (normal return, or an exception
\* from parsing, batch_generate, decoding, scoring or the update) the
\* decoder's with_lm flag is no longer in the temporarily enabled mode: a call
\* that found the flag off leaves it off.
C12_WithLmRestored ==
    (LeftTrainStep /\ ~pev.loc.entry.with_lm) => ~with_lm

\* C13: a train_X that is neither a tuple/list nor a mapping with the keys
\* input_ids and query never gets past the parsing of lines 32-37, and the
\* call raises with the trainer exactly as the call found it: with_lm not
\* toggled, no reward-model call, nothing staged, ppo_step not set, no update.
C13_MalformedInputRaisesFirst ==
    /\ pev.type = "parsed" => pev.form \in {"tuple", "dict"}
    /\ (pev.type = "train_step_raise" /\ pev.at = "parse") =>
          /\ pev.form \in {"dict_without_keys", "other"}
          /\ pev.error \in {"KeyError", "ValueError"}
          /\ Snapshot = pev.loc.entry
          /\ pev.loc.path = <<>>
          /\ tpc = "idle"

C13_Witness ==
    /\ pev.type = "train_step_raise" /\ pev.at = "parse"
    /\ pev.form = "other" /\ pev.error = "ValueError"
    /\ calls = 2
    /\ staged # Unstaged

\* C14: a train_step call that returns normally went through generation,
\* decoding and scoring, reward shaping, staging and the policy update in
\* that order, ran PPOTrainer.step exactly once, on the question tensors,
\* response tensors and rewards of this very call, and ends idle with
\* ppo_step False.
C14_OneUpdatePerCall ==
    pev.type = "train_step_return" =>
        /\ pev.loc.path = <<"generate", "decode", "score", "shape", "stage", "update">>
        /\ pev.loc.used = [question_tensors |-> pev.loc.q,
                           response_tensors |-> pev.loc.resp,
                           rewards |-> pev.loc.rewards,
                           call |-> pev.call]
        /\ pev.call = calls
        /\ updates = pev.loc.entry.updates + 1
        /\ tpc = "idle"
        /\ ppo_step = "False"

C14_Witness ==
    /\ pev.type = "train_step_return"
    /\ pev.call = 2
    /\ updates = 2
    /\ pev.loc.used.call = 2

\* C15: with trl installed and a generation object passed, constructing the
\* trainer yields a trainer whose shaping baseline (the value line 51 hands
\* to calculate_rewards) is the reward_baseline keyword, or 0 when the
\* keyword is not passed.
C15_ConfiguredBaselineUsed ==
    (pev.type = "construct" /\ pev.args.trl /\ pev.args.generation) =>
        /\ pphase = "ready"
        /\ reward_baseline = IF pev.args.reward_baseline = <<>>
                             THEN 0
                             ELSE pev.args.reward_baseline[1]

\* C16: with trl not installed, building the trainer fails with the
\* ValueError of lines 18-19, and no trainer object comes into being.
C16_MissingTrlRaisesValueError ==
    (pev.type = "construct" /\ ~pev.args.trl) =>
        /\ pphase = "raised"
        /\ pev.error = "ValueError"

\* C22: a train_step call that returns normally leaves with_lm at the value
\* it had immediately before the call, and with_lm is True from the start of
\* batch_generate to its end.
C22_WithLmPriorRestored ==
    /\ pev.type = "train_step_return" => with_lm = pev.loc.entry.with_lm
    /\ tpc = "generating" => with_lm
    /\ pev.type = "generated" => pev.during

\* C23: step() on a freshly constructed trainer, before any train_step,
\* returns None without raising and without a policy update.
C23_FreshStepReturnsNone ==
    (pev.type = "step" /\ calls = 0) =>
        /\ pev.result = "None"
        /\ updates = 0

TrainStepOrder == <<"generate", "decode", "score", "shape", "stage", "update">>

\* C24: when a stage of train_step raises, the call ends with that stage's
\* own error, every earlier stage has run once and the failed one is not run
\* again, no update has run in the call, nothing is staged when generation,
\* decoding or scoring failed, and no bare step() ever performs an update.
C24_FailurePropagates ==
    /\ (pev.type = "train_step_raise" /\ pev.at # "parse") =>
          /\ tpc = "idle"
          /\ <<pev.at, pev.error>> \in {<<"generate", "generation">>, <<"decode", "decode">>,
                                         <<"score", "reward_model">>, <<"update", "ppo_step">>}
          /\ Len(pev.loc.path) < Len(TrainStepOrder)
          /\ pev.loc.path = SubSeq(TrainStepOrder, 1, Len(pev.loc.path))
          /\ TrainStepOrder[Len(pev.loc.path) + 1] = pev.at
          /\ updates = pev.loc.entry.updates
          /\ ppo_step # "True"
          /\ pev.at # "update" => staged = pev.loc.entry.staged
    /\ pev.type = "step" => (updates = pev.updates_before /\ pev.result # "update")

C24_Witness ==
    /\ pev.type = "step" /\ pev.result = "None"
    /\ calls = 2 /\ staged.call = 1
    /\ updates = 1

\* C26: when train_step invokes the policy-gradient step, the staged question
\* tensors, response tensors and rewards have one length, and reward i is the
\* shaped score of query text i and decoded response i.
C26_AlignedStaging ==
    (pev.type = "update" /\ pev.from = "train_step") =>
        LET b == pev.batch
        IN  /\ Len(b.question_tensors) = Len(b.response_tensors)
            /\ Len(b.response_tensors) = Len(b.rewards)
            /\ \A i \in 1..Len(b.rewards) :
                  b.rewards[i] = RewardOf(get_reward_model_output(loc.query[i],
                                                                  decode(b.response_tensors[i])),
                                          reward_baseline)

====
